---------------------------- MODULE Spec2Model ----------------------------
(***************************************************************************)
(* A model of assets/generate_icon.py: the rasterizer draw_icon, the PNG   *)
(* encoder create_png and the driver main.                                 *)
(*                                                                         *)
(* Three specifications share one set of variables:                        *)
(*   SpecRender  one call of draw_icon(size), one pixel per step;          *)
(*   SpecEncode  one call of create_png(width, height, pixels);            *)
(*   SpecDriver  runs of main() against a filesystem that may fail.        *)
(*                                                                         *)
(* draw_icon computes in IEEE doubles.  With dx2 = 2*x - size and          *)
(* dy2 = 2*y - size every quantity it compares is a rational in size, dx2, *)
(* dy2, so the model evaluates each comparison and each int() exactly,     *)
(* cross-multiplied to integers.  The one place where the doubles differ   *)
(* from the reals at small sizes is the product size * 0.45: when the      *)
(* nearest double lies below 9*size/20 the alpha value of a pixel whose    *)
(* exact alpha is a whole number comes out one lower (RadiusShort).        *)
(***************************************************************************)
EXTENDS Integers, Sequences, FiniteSets, TLC

\* Largest size handed to draw_icon.
MaxSize == 16

\* Largest width and height handed to create_png.
MaxWidth == 2

MaxHeight == 2

\* Most invocations of main, one after the other, on the same directory.
MaxRuns == 2

\* Most parts of a file that reach the disk before its write fails.
MaxPartial == 1

VARIABLES
    pc,         \* position of the running function
    size,       \* draw_icon: its argument; main: the size of the current entry
    pixels,     \* draw_icon: the buffer being filled; create_png: its argument
    x, y,       \* loop counters (draw_icon lines 48-49, create_png line 27)
    width,      \* create_png: its arguments
    height,
    raw_data,   \* create_png: the rows gathered so far (line 26)
    ihdr,       \* create_png: the chunks built (lines 23, 34)
    idat,
    png_data,   \* the bytes create_png returns (line 39; main line 165)
    dirExists,  \* the filesystem: whether icon.iconset exists,
    files,      \*   and the files in it, name |-> content
    rendered,   \* main: the cache of line 158, size |-> buffer
    i,          \* main: the table entry the loop of line 160 is at
    run,        \* the number of this invocation of main
    renderLog,  \* history: the sizes draw_icon was called with in this run
    written,    \* history: the files this run has written in full
    fsFailed    \* history: a filesystem operation of this run has failed

renderVars == <<size, x>>

encodeVars == <<width, height, raw_data, ihdr, idat, png_data>>

driverVars == <<dirExists, files, rendered, i, run, renderLog, written, fsFailed>>

vars == <<pc, pixels, y, renderVars, encodeVars, driverVars>>

\* the driver's variables while draw_icon or create_png is run on its own
DriverIdle ==
    /\ dirExists = FALSE /\ files = << >> /\ rendered = << >>
    /\ i = 0 /\ run = 0 /\ renderLog = << >> /\ written = << >> /\ fsFailed = FALSE

----------------------------------------------------------------------------
(* Arithmetic helpers *)

Abs(n) == IF n < 0 THEN -n ELSE n

Min(m, n) == IF m <= n THEN m ELSE n

Max(m, n) == IF m >= n THEN m ELSE n

RECURSIVE ISqrt(_)
\* floor of the square root: math.sqrt, read at integer resolution
ISqrt(n) ==
    IF n < 2 THEN n
    ELSE LET r == 2 * ISqrt(n \div 4)
         IN  IF (r + 1) * (r + 1) <= n THEN r + 1 ELSE r

RECURSIVE Pow2(_)
Pow2(n) == IF n = 0 THEN 1 ELSE 2 * Pow2(n - 1)

RECURSIVE RadiusExpUp(_, _)
\* for 9*size/20 >= 1: the largest e with 2^e <= 9*size/20
RadiusExpUp(s, e) ==
    IF 20 * Pow2(e + 1) <= 9 * s THEN RadiusExpUp(s, e + 1) ELSE e

RECURSIVE RadiusExpDown(_, _)
\* for 9*size/20 < 1: the least n with 2^(-n) <= 9*size/20
RadiusExpDown(s, n) ==
    IF 20 <= 9 * s * Pow2(n) THEN n ELSE RadiusExpDown(s, n + 1)

\* binary exponent of the double size * 0.45 (size >= 1)
RadiusExp(s) == IF 9 * s >= 20 THEN RadiusExpUp(s, 0) ELSE -RadiusExpDown(s, 1)

\* Line 46, radius = size * 0.45: TRUE when the double the product rounds to
\* lies below the real 9*size/20.  0.45 is stored as 0.45 + 0.2 * 2^-54, so in
\* units of the result's last place the product is N/5 + d with
\* N = 9*size*2^(50-e) and 0.11 <= d < 0.23; it rounds down onto a smaller
\* double exactly when N mod 5 = 1.  2^n mod 5 has period 4.
RadiusShort(s) ==
    s >= 1 /\
    LET n == 50 - RadiusExp(s)
        p == <<1, 2, 4, 3>>[(n % 4) + 1]
    IN  (9 * s * p) % 5 = 1

----------------------------------------------------------------------------
(* draw_icon, lines 42-133.  dx2 = 2*dx, dy2 = 2*dy (integers);            *)
(* nx = 10*dx2/(9*size), ny = 10*dy2/(9*size).                             *)

\* line 53: (2*dist)^2
Dist2(dx2, dy2) == dx2 * dx2 + dy2 * dy2

\* a disk test against size / 2 instead of the radius 0.45 * size
InDiskHalfSize(s, dx2, dy2) == Dist2(dx2, dy2) <= s * s

\* line 55: dist <= radius, radius = 0.45 * size
InDisk(s, dx2, dy2) ==
    \/ 100 * Dist2(dx2, dy2) < 81 * s * s
    \/ 100 * Dist2(dx2, dy2) = 81 * s * s /\ ~RadiusShort(s)

\* lines 58-59: t = clamp((dx + dy) / (2 * radius) + 0.5), as TNum / (18*size)
TNum(s, dx2, dy2) == Max(0, Min(18 * s, 10 * (dx2 + dy2) + 9 * s))

\* line 62: r = int(40 + t * 20)
Red(s, dx2, dy2) == 40 + (20 * TNum(s, dx2, dy2)) \div (18 * s)

\* line 63: g = int(120 + t * 30)
Green(s, dx2, dy2) == 120 + (30 * TNum(s, dx2, dy2)) \div (18 * s)

\* line 64: b = int(220 - t * 40)
Blue(s, dx2, dy2) == (220 * 18 * s - 40 * TNum(s, dx2, dy2)) \div (18 * s)

\* line 69: edge_dist < 1.5, edge_dist = radius - dist
NearEdge(s, dx2, dy2) ==
    \/ 9 * s < 30
    \/ (9 * s - 30) * (9 * s - 30) < 100 * Dist2(dx2, dy2)
    \/ (9 * s - 30) * (9 * s - 30) = 100 * Dist2(dx2, dy2) /\ RadiusShort(s)

\* alpha scaled at every pixel of the disk, the test of line 69 left out
AlphaUnguarded(s, dx2, dy2) ==
    LET m  == 28900 * Dist2(dx2, dy2)
        r0 == ISqrt(m)
    IN  IF r0 * r0 = m THEN (153 * s - r0) \div 2 ELSE (153 * s - r0 - 1) \div 2

\* lines 65-70: a = 255, or int(255 * (edge_dist / 1.5)) near the edge.
\* 255 * edge_dist / 1.5 = (153*size - sqrt(28900 * Dist2)) / 2.
Alpha(s, dx2, dy2) ==
    IF ~NearEdge(s, dx2, dy2) THEN 255
    ELSE LET m  == 28900 * Dist2(dx2, dy2)
             r0 == ISqrt(m)
             v  == 153 * s - r0
         IN  IF r0 * r0 = m
             THEN IF v % 2 = 0 /\ RadiusShort(s) THEN (v \div 2) - 1 ELSE v \div 2
             ELSE (v - 1) \div 2

\* lines 80-97: the capsule body, mic_width = mic_corner_r = 0.22,
\* mic_top = -0.55, mic_bottom = 0.0
Capsule(s, dx2, dy2) ==
    /\ 1000 * Abs(dx2) <= 22 * 9 * s
    /\ \/ -33 * 9 * s <= 1000 * dy2 /\ 1000 * dy2 <= -22 * 9 * s
       \/ /\ 1000 * dy2 < -33 * 9 * s
          /\   (1000 * dx2) * (1000 * dx2)
             + (1000 * dy2 + 33 * 9 * s) * (1000 * dy2 + 33 * 9 * s)
             <= (22 * 9 * s) * (22 * 9 * s)
       \/ /\ 1000 * dy2 > -22 * 9 * s
          /\   (1000 * dx2) * (1000 * dx2)
             + (1000 * dy2 + 22 * 9 * s) * (1000 * dy2 + 22 * 9 * s)
             <= (22 * 9 * s) * (22 * 9 * s)

\* lines 100-105: the arc, arc_radius = 0.38, arc_thickness = 0.055, centre
\* (0, -0.1); arc_dist = sqrt((2000*dx2)^2 + (2000*dy2 + 180*size)^2) / (1800*size)
Arc(s, dx2, dy2) ==
    /\ -10 * 9 * s <= 1000 * dy2 /\ 1000 * dy2 <= 25 * 9 * s
    /\ LET d2 ==   (2000 * dx2) * (2000 * dx2)
                 + (2000 * dy2 + 180 * s) * (2000 * dy2 + 180 * s)
       IN  (585 * s) * (585 * s) <= d2 /\ d2 <= (783 * s) * (783 * s)

\* the stand tested on nx instead of abs(nx)
StandSigned(s, dx2, dy2) ==
    /\ 1000 * dx2 <= 4 * 9 * s
    /\ 15 * 9 * s <= 1000 * dy2 /\ 1000 * dy2 <= 45 * 9 * s

\* lines 108-110: the stand, stand_width = 0.04
Stand(s, dx2, dy2) ==
    /\ 1000 * Abs(dx2) <= 4 * 9 * s
    /\ 15 * 9 * s <= 1000 * dy2 /\ 1000 * dy2 <= 45 * 9 * s

\* lines 113-116: the base, base_width = 0.2, base_thickness = 0.04 around 0.45
Base(s, dx2, dy2) ==
    /\ 1000 * Abs(dx2) <= 20 * 9 * s
    /\ 41 * 9 * s <= 1000 * dy2 /\ 1000 * dy2 <= 49 * 9 * s

\* lines 77-116
is_mic(s, dx2, dy2) ==
    Capsule(s, dx2, dy2) \/ Arc(s, dx2, dy2) \/ Stand(s, dx2, dy2) \/ Base(s, dx2, dy2)

\* lines 50-131: the four channel values of pixel (px, py)
Pixel(s, px, py) ==
    LET dx2 == 2 * px - s
        dy2 == 2 * py - s
    IN  IF InDisk(s, dx2, dy2)
        THEN IF is_mic(s, dx2, dy2)
             THEN <<255, 255, 255, Alpha(s, dx2, dy2)>>
             ELSE <<Red(s, dx2, dy2), Green(s, dx2, dy2), Blue(s, dx2, dy2),
                    Alpha(s, dx2, dy2)>>
        ELSE <<0, 0, 0, 0>>

\* line 50: idx = (y * size + x) * 4, as a 1-based position
Idx(w, px, py) == (py * w + px) * 4 + 1

InitRender ==
    /\ size \in 0..MaxSize
    /\ pc = "draw"
    /\ pixels = [k \in 1..(size * size * 4) |-> 0]      \* line 44
    /\ x = 0
    /\ y = 0
    /\ width = 0 /\ height = 0
    /\ raw_data = << >> /\ ihdr = << >> /\ idat = << >> /\ png_data = << >>
    /\ DriverIdle

\* one iteration of the loops of lines 48-131
DrawPixel ==
    /\ pc = "draw"
    /\ y < size
    /\ LET p   == Pixel(size, x, y)
           idx == Idx(size, x, y)
       IN  pixels' = [pixels EXCEPT ![idx] = p[1], ![idx + 1] = p[2],
                                    ![idx + 2] = p[3], ![idx + 3] = p[4]]
    /\ IF x + 1 < size
       THEN x' = x + 1 /\ y' = y
       ELSE x' = 0 /\ y' = y + 1
    /\ UNCHANGED <<pc, size, encodeVars, driverVars>>

\* line 133: return pixels
DrawReturn ==
    /\ pc = "draw"
    /\ y >= size
    /\ pc' = "drawn"
    /\ UNCHANGED <<size, pixels, x, y, encodeVars, driverVars>>

NextRender == DrawPixel \/ DrawReturn

SpecRender == InitRender /\ [][NextRender]_vars

----------------------------------------------------------------------------
(* Bytes, checksums and the compressed stream.                             *)
(* A 32-bit word is kept as two 16-bit halves <<hi, lo>>.                  *)

RECURSIVE Xor(_, _, _)
\* bitwise exclusive or of two naturals below 2^k, k a power of two: the upper
\* and the lower half of the bits apart
Xor(m, n, k) ==
    IF k = 1 THEN (m + n) % 2
    ELSE LET h == Pow2(k \div 2)
         IN  Xor(m \div h, n \div h, k \div 2) * h + Xor(m % h, n % h, k \div 2)

\* struct.pack('>I', n), 0 <= n < 2^31
Pack32(n) ==
    <<(n \div 16777216) % 256, (n \div 65536) % 256, (n \div 256) % 256, n % 256>>

\* the four bytes of a word kept in halves, most significant first
HalvesBytes(w) == <<w[1] \div 256, w[1] % 256, w[2] \div 256, w[2] % 256>>

RECURSIVE CrcBits(_, _)
\* k steps of the reflected CRC-32 register, polynomial EDB88320
CrcBits(w, k) ==
    IF k = 0 THEN w
    ELSE LET hi == w[1] \div 2
             lo == (w[2] \div 2) + (w[1] % 2) * 32768
         IN  IF w[2] % 2 = 1
             THEN CrcBits(<<Xor(hi, 60856, 16), Xor(lo, 33568, 16)>>, k - 1)
             ELSE CrcBits(<<hi, lo>>, k - 1)

\* the register after one more byte
CrcByte(w, byte) == CrcBits(<<w[1], Xor(w[2], byte, 16)>>, 8)

RECURSIVE CrcRun(_, _, _, _)
\* the register after data[from..to].  The range is taken in halves, and the
\* first half's register is looked at before the second half starts, so that
\* TLC, which evaluates arguments on demand, keeps a shallow stack.
CrcRun(w, data, from, to) ==
    IF from > to THEN w
    ELSE IF from = to THEN CrcByte(w, data[from])
    ELSE LET mid  == (from + to) \div 2
             left == CrcRun(w, data, from, mid)
         IN  IF left[1] >= 0 THEN CrcRun(left, data, mid + 1, to) ELSE left

\* line 15: struct.pack('>I', zlib.crc32(data) & 0xFFFFFFFF)
Crc32(data) ==
    LET w == CrcRun(<<65535, 65535>>, data, 1, Len(data))
    IN  HalvesBytes(<<Xor(w[1], 65535, 16), Xor(w[2], 65535, 16)>>)

RECURSIVE AdlerRun(_, _, _, _)
\* the sums <<s1, s2>> of Adler-32 after data[from..to], halved like CrcRun
AdlerRun(s, data, from, to) ==
    IF from > to THEN s
    ELSE IF from = to
         THEN <<(s[1] + data[from]) % 65521, (s[2] + s[1] + data[from]) % 65521>>
    ELSE LET mid  == (from + to) \div 2
             left == AdlerRun(s, data, from, mid)
         IN  IF left[1] >= 0 THEN AdlerRun(left, data, mid + 1, to) ELSE left

\* the Adler-32 checksum that ends a zlib stream, most significant byte first
Adler32(data) ==
    LET s == AdlerRun(<<1, 0>>, data, 1, Len(data))
    IN  HalvesBytes(<<s[2], s[1]>>)

\* line 33: zlib.compress(raw_data, 9).  The library is not part of the
\* repository; the model writes the same container (RFC 1950: the header
\* 78 DA of level 9, a deflate stream, Adler-32 of the input) with the input
\* in one stored deflate block (RFC 1951, 3.2.4: final-block bit, LEN, its
\* complement), which any inflate reads back.  The Huffman coding the library
\* would choose, and so the length of its output, is not modelled.
Compress(data) ==
    LET n == Len(data)
    IN  <<120, 218, 1, n % 256, n \div 256, 255 - (n % 256), 255 - (n \div 256)>>
        \o data \o Adler32(data)

----------------------------------------------------------------------------
(* create_png, lines 11-39 *)

\* line 19
signature == <<137, 80, 78, 71, 13, 10, 26, 10>>

TagIHDR == <<73, 72, 68, 82>>

TagIDAT == <<73, 68, 65, 84>>

TagIEND == <<73, 69, 78, 68>>

\* a chunk whose checksum covers the payload only
make_chunk_crc_of_data(chunk_type, data) ==
    Pack32(Len(data)) \o chunk_type \o data \o Crc32(data)

\* lines 13-16
make_chunk(chunk_type, data) ==
    LET chunk == chunk_type \o data
    IN  Pack32(Len(data)) \o chunk \o Crc32(chunk)

\* line 22: struct.pack('>IIBBBBB', width, height, 8, 6, 0, 0, 0)
ihdr_data(w, h) == Pack32(w) \o Pack32(h) \o <<8, 6, 0, 0, 0>>

\* pixels[idx:idx+4] with idx = (x * height + y) * 4: the buffer read by columns
PixelSliceByColumn(buf, w, h, px, py) ==
    LET idx == (px * h + py) * 4
    IN  SubSeq(buf, Min(idx, Len(buf)) + 1, Min(idx + 4, Len(buf)))

\* lines 30-31: pixels[idx:idx+4] with idx = (y * width + x) * 4.  A slice stops
\* at the end of the list: it is shorter than 4, or empty, past the end.
PixelSlice(buf, w, h, px, py) ==
    LET idx == (py * w + px) * 4
    IN  SubSeq(buf, Min(idx, Len(buf)) + 1, Min(idx + 4, Len(buf)))

RECURSIVE RowSlices(_, _, _, _, _)
\* lines 29-31: the slices of row py from column px on, concatenated
RowSlices(buf, w, h, px, py) ==
    IF px >= w THEN << >>
    ELSE PixelSlice(buf, w, h, px, py) \o RowSlices(buf, w, h, px + 1, py)

\* bytes(...) of line 31 raises ValueError unless every value is in range(256)
IsBytes(s) == \A k \in 1..Len(s) : s[k] \in 0..255

\* the values create_png is tried on: ramps whose neighbours differ, and the
\* two constant buffers
ByteSeeds == {0, 77, 255}

Ramp(seed, n) == [k \in 1..n |-> (seed + 37 * (k - 1)) % 256]

Constant(v, n) == [k \in 1..n |-> v]

\* lengths tried for a width x height image: the right one, one value or one
\* pixel short of it, one value or one pixel beyond it
BufferLens(w, h) ==
    {n \in 0..(4 * w * h + 4) : Abs(n - 4 * w * h) \in {0, 1, 4}}

\* a buffer with a value bytes() rejects
OutOfRange(buf) == IF Len(buf) = 0 THEN buf ELSE [buf EXCEPT ![Len(buf)] = 256]

Buffers(w, h) ==
    LET good == UNION {{Ramp(s, n) : s \in ByteSeeds} \cup {Constant(0, n)} :
                       n \in BufferLens(w, h)}
    IN  good \cup {OutOfRange(Ramp(0, 4 * w * h))}

InitEncode ==
    /\ width \in 0..MaxWidth
    /\ height \in 0..MaxHeight
    /\ pixels \in Buffers(width, height)
    /\ pc = "ihdr"
    /\ y = 0
    /\ raw_data = << >> /\ ihdr = << >> /\ idat = << >> /\ png_data = << >>
    /\ size = 0 /\ x = 0
    /\ DriverIdle

\* lines 19-26
EncodeHeader ==
    /\ pc = "ihdr"
    /\ ihdr' = make_chunk(TagIHDR, ihdr_data(width, height))
    /\ raw_data' = << >>
    /\ y' = 0
    /\ pc' = "rows"
    /\ UNCHANGED <<pixels, renderVars, width, height, idat, png_data, driverVars>>

\* lines 27-31: one row, the filter byte and the row's slices
EncodeRow ==
    /\ pc = "rows"
    /\ y < height
    /\ LET row == RowSlices(pixels, width, height, 0, y)
       IN  \/ /\ IsBytes(row)
              /\ raw_data' = raw_data \o <<0>> \o row
              /\ y' = y + 1
              /\ pc' = pc
           \/ /\ ~IsBytes(row)              \* ValueError out of bytes()
              /\ raw_data' = raw_data \o <<0>>
              /\ y' = y
              /\ pc' = "fault"
    /\ UNCHANGED <<pixels, renderVars, width, height, ihdr, idat, png_data, driverVars>>

\* lines 33-34
EncodeData ==
    /\ pc = "rows"
    /\ y >= height
    /\ idat' = make_chunk(TagIDAT, Compress(raw_data))
    /\ pc' = "iend"
    /\ UNCHANGED <<pixels, y, renderVars, width, height, raw_data, ihdr, png_data, driverVars>>

\* lines 37-39
EncodeReturn ==
    /\ pc = "iend"
    /\ png_data' = signature \o ihdr \o idat \o make_chunk(TagIEND, << >>)
    /\ pc' = "encoded"
    /\ UNCHANGED <<pixels, y, renderVars, width, height, raw_data, ihdr, idat, driverVars>>

NextEncode == EncodeHeader \/ EncodeRow \/ EncodeData \/ EncodeReturn

SpecEncode == InitEncode /\ [][NextEncode]_vars

----------------------------------------------------------------------------
(* main, lines 136-171, and the filesystem it writes to.                   *)
(*                                                                         *)
(* The table's sizes go up to 1024, so a run keeps what draw_icon and       *)
(* create_png return as terms: Icon(s) is the buffer draw_icon(s) returns, *)
(* and the bytes of a file are the sequence of the four parts create_png   *)
(* joins, each part named with the arguments it is computed from.  A file  *)
(* whose write failed holds some first parts of that sequence.             *)

\* lines 144-155: the dict keeps its insertion order
sizes ==
    << [filename |-> "icon_16x16.png",      size |-> 16],
       [filename |-> "icon_16x16@2x.png",   size |-> 32],
       [filename |-> "icon_32x32.png",      size |-> 32],
       [filename |-> "icon_32x32@2x.png",   size |-> 64],
       [filename |-> "icon_128x128.png",    size |-> 128],
       [filename |-> "icon_128x128@2x.png", size |-> 256],
       [filename |-> "icon_256x256.png",    size |-> 256],
       [filename |-> "icon_256x256@2x.png", size |-> 512],
       [filename |-> "icon_512x512.png",    size |-> 512],
       [filename |-> "icon_512x512@2x.png", size |-> 1024] >>

\* the buffer draw_icon(s) returns (lines 42-133), as a term
Icon(s) == [draw_icon |-> s]

\* one of the parts line 39 joins
Part(name, args) == [part |-> name, of |-> args]

\* create_png(w, h, buf), lines 11-39: signature, IHDR, IDAT, IEND
create_png(w, h, buf) ==
    << Part("signature", << >>),
       Part("IHDR", <<w, h>>),
       Part("IDAT", <<w, h, buf>>),
       Part("IEND", << >>) >>

\* os.makedirs(path, exist_ok): an existing directory is an error unless
\* exist_ok; a missing one is created when the filesystem lets it
makedirs(exists, exist_ok, fsOk) ==
    IF exists THEN (IF exist_ok THEN "ok" ELSE "error")
    ELSE IF fsOk THEN "ok" ELSE "error"

\* the call without exist_ok
MakedirsPlain(exists, fsOk) == makedirs(exists, FALSE, fsOk)

\* line 142: os.makedirs(iconset_dir, exist_ok=True)
MakedirsCall(exists, fsOk) == makedirs(exists, TRUE, fsOk)

\* every entry is rendered again
NeverCached(s, cache) == FALSE

\* line 162: size in rendered
InCache(s, cache) == s \in DOMAIN cache

\* the buffer of the smallest size in the cache
CachedFirst(s, cache) ==
    cache[CHOOSE k \in DOMAIN cache : \A m \in DOMAIN cache : k <= m]

\* line 164: pixels = rendered[size]
Cached(s, cache) == cache[s]

\* an OSError caught inside the loop, which then goes on
Swallowed(next) == next

\* lines 142, 167-168: nothing in main catches an OSError, the run ends
Uncaught(next) == "aborted"

\* f with name bound to content
Bind(f, name, content) ==
    [n \in DOMAIN f \cup {name} |-> IF n = name THEN content ELSE f[n]]

InitDriver ==
    /\ pc = "start"
    /\ dirExists \in BOOLEAN
    /\ files = << >>
    /\ rendered = << >> /\ i = 1 /\ run = 1
    /\ renderLog = << >> /\ written = << >> /\ fsFailed = FALSE
    /\ size = 0 /\ pixels = << >> /\ png_data = << >>
    /\ x = 0 /\ y = 0 /\ width = 0 /\ height = 0
    /\ raw_data = << >> /\ ihdr = << >> /\ idat = << >>

DriverOther == <<x, y, width, height, raw_data, ihdr, idat>>

\* line 142; the filesystem can refuse only a directory that has to be made
MainMakedirs ==
    /\ pc = "start"
    /\ \E fsOk \in (IF dirExists THEN {TRUE} ELSE BOOLEAN) :
          /\ IF MakedirsCall(dirExists, fsOk) = "ok"
             THEN dirExists' = TRUE /\ pc' = "loop"
             ELSE dirExists' = dirExists /\ pc' = Uncaught("loop")
          /\ fsFailed' = (fsFailed \/ ~fsOk)
    /\ UNCHANGED <<files, rendered, i, run, renderLog, written, size, pixels,
                   png_data, DriverOther>>

\* line 160: the next entry of the table
MainNextEntry ==
    /\ pc = "loop"
    /\ i <= Len(sizes)
    /\ size' = sizes[i].size
    /\ pc' = "render"
    /\ UNCHANGED <<pixels, png_data, driverVars, DriverOther>>

\* lines 162-163
MainRender ==
    /\ pc = "render"
    /\ \/ /\ ~InCache(size, rendered)
          /\ rendered' = Bind(rendered, size, Icon(size))
          /\ renderLog' = Append(renderLog, size)
       \/ /\ InCache(size, rendered)
          /\ UNCHANGED <<rendered, renderLog>>
    /\ pc' = "encode"
    /\ UNCHANGED <<size, pixels, png_data, dirExists, files, i, run, written,
                   fsFailed, DriverOther>>

\* lines 164-165
MainEncode ==
    /\ pc = "encode"
    /\ pixels' = Cached(size, rendered)
    /\ png_data' = create_png(size, size, pixels')
    /\ pc' = "open"
    /\ UNCHANGED <<size, driverVars, DriverOther>>

\* line 167: open(filepath, 'wb') creates the file or empties it
MainOpen ==
    /\ pc = "open"
    /\ \/ /\ files' = Bind(files, sizes[i].filename, << >>)
          /\ pc' = "write"
          /\ fsFailed' = fsFailed
       \/ /\ files' = files
          /\ pc' = Uncaught("write")
          /\ fsFailed' = TRUE
    /\ UNCHANGED <<size, pixels, png_data, dirExists, rendered, i, run,
                   renderLog, written, DriverOther>>

\* line 168 and the close at the end of the with block: all of png_data is in
\* the file, or the write fails with only some first parts of it there
MainWrite ==
    /\ pc = "write"
    /\ \/ /\ files' = Bind(files, sizes[i].filename, png_data)
          /\ written' = Append(written, sizes[i].filename)
          /\ i' = i + 1
          /\ pc' = "loop"
          /\ fsFailed' = fsFailed
       \/ /\ \E k \in 0..MaxPartial :
                 files' = Bind(files, sizes[i].filename, SubSeq(png_data, 1, k))
          /\ written' = written
          /\ i' = i
          /\ pc' = Uncaught("open")
          /\ fsFailed' = TRUE
    /\ UNCHANGED <<size, pixels, png_data, dirExists, rendered, run, renderLog,
                   DriverOther>>

\* lines 170-171: the loop is over
MainFinish ==
    /\ pc = "loop"
    /\ i > Len(sizes)
    /\ pc' = "done"
    /\ UNCHANGED <<size, pixels, png_data, driverVars, DriverOther>>

\* the script is invoked again: a new process on the directory as it was left
Rerun ==
    /\ pc \in {"done", "aborted"}
    /\ run < MaxRuns
    /\ run' = run + 1
    /\ pc' = "start"
    /\ rendered' = << >> /\ i' = 1
    /\ renderLog' = << >> /\ written' = << >> /\ fsFailed' = FALSE
    /\ size' = 0 /\ pixels' = << >> /\ png_data' = << >>
    /\ UNCHANGED <<dirExists, files, DriverOther>>

NextDriver ==
    \/ MainMakedirs \/ MainNextEntry \/ MainRender \/ MainEncode
    \/ MainOpen \/ MainWrite \/ MainFinish \/ Rerun

SpecDriver == InitDriver /\ [][NextDriver]_vars

----------------------------------------------------------------------------
(* Properties of draw_icon, checked under SpecRender.                      *)

\* the channels of pixel (px, py) as the buffer holds them
Channel(px, py, c) == pixels[Idx(size, px, py) + c]

\* a glyph pixel is white; the background's red never exceeds 60
Glyph(px, py) ==
    Channel(px, py, 0) = 255 /\ Channel(px, py, 1) = 255 /\ Channel(px, py, 2) = 255

Coords == 0..(size - 1)

\* C5: for every size s > 0, render(s) returns a buffer of exactly s*s*4
\* values and every value in it is an integer in 0..255 (the buffer has that
\* shape from its allocation on, so also when it is returned).
C5_BufferShape ==
    size > 0 =>
        /\ Len(pixels) = size * size * 4
        /\ \A k \in 1..Len(pixels) : pixels[k] \in 0..255

C5_Witness ==
    /\ pc = "drawn" /\ size > 1
    /\ \E px \in Coords, py \in Coords :
           Channel(px, py, 3) > 0 /\ Channel(px, py, 3) < 255
    /\ \E px \in Coords, py \in Coords : Channel(px, py, 3) = 255

\* C6: in render(s) every pixel farther from (s/2, s/2) than 0.45*s has all
\* four channels 0; a pixel in the disk has alpha 0 only within 1/170 px of
\* the boundary (where int(255 * edge_dist / 1.5) is 0); every pixel at least
\* 1.5 px inside the boundary has alpha 255.
C6_DiskAlpha ==
    pc = "drawn" =>
        \A px \in Coords, py \in Coords :
            LET q == Dist2(2 * px - size, 2 * py - size)
            IN  /\ 100 * q > 81 * size * size =>
                    \A c \in 0..3 : Channel(px, py, c) = 0
                /\ 100 * q <= 81 * size * size /\ Channel(px, py, 3) = 0 =>
                    (153 * size - 2) * (153 * size - 2) < 28900 * q
                /\ 9 * size >= 30 /\ 100 * q <= (9 * size - 30) * (9 * size - 30) =>
                    Channel(px, py, 3) = 255

C6_Witness ==
    /\ pc = "drawn"
    /\ \E px \in Coords, py \in Coords :
           LET q == Dist2(2 * px - size, 2 * py - size)
           IN  100 * q > 81 * size * size /\ Channel(px, py, 3) = 0
    /\ \E px \in Coords, py \in Coords :
           LET q == Dist2(2 * px - size, 2 * py - size)
           IN  /\ 100 * q <= 81 * size * size
               /\ 100 * q > (9 * size - 30) * (9 * size - 30)
               /\ Channel(px, py, 3) > 0 /\ Channel(px, py, 3) < 255
    /\ \E px \in Coords, py \in Coords :
           LET q == Dist2(2 * px - size, 2 * py - size)
           IN  /\ 9 * size >= 30 /\ 100 * q <= (9 * size - 30) * (9 * size - 30)
               /\ Channel(px, py, 3) = 255
    /\ \E px \in Coords, py \in Coords :
           LET q == Dist2(2 * px - size, 2 * py - size)
           IN  100 * q <= 81 * size * size /\ Channel(px, py, 3) = 0

\* C7 as stated: the glyph mask is mirror-symmetric about the vertical centre
\* line of the image, pixel (x, y) being foreground exactly when (s-1-x, y) is.
C7_MirrorOfImage ==
    pc = "drawn" =>
        \A px \in Coords, py \in Coords : Glyph(px, py) <=> Glyph(size - 1 - px, py)

\* C7 amended: the glyph mask is mirror-symmetric about the vertical line
\* x = s/2 through the centre (s/2, s/2) that render measures from: for every
\* row y and column x in 1..s-1, pixel (x, y) is foreground exactly when
\* (s-x, y) is, and column 0, which has no mirror column, holds no foreground.
C7_MirrorAboutCentre ==
    pc = "drawn" =>
        /\ \A px \in 1..(size - 1), py \in Coords : Glyph(px, py) <=> Glyph(size - px, py)
        /\ \A py \in Coords : ~Glyph(0, py)

C7_Witness ==
    /\ pc = "drawn"
    /\ \E px \in 1..(size - 1), py \in Coords :
           Glyph(px, py) /\ 2 * px < size /\ Glyph(size - px, py)
    /\ \E px \in Coords, py \in Coords : Glyph(px, py) /\ ~Glyph(size - 1 - px, py)

----------------------------------------------------------------------------
(* Reading a PNG back, for the properties of create_png.                   *)

\* four bytes, most significant first, as a number
Unpack32(b, k) == ((b[k] * 256 + b[k + 1]) * 256 + b[k + 2]) * 256 + b[k + 3]

RECURSIVE Chunks(_, _)
\* the blocks of b from position k on, each read by its own length field;
\* bytes that do not make up a block end the list with a "bad" entry
Chunks(b, k) ==
    IF k > Len(b) THEN << >>
    ELSE IF k + 11 > Len(b) \/ k + 11 + Unpack32(b, k) > Len(b)
         THEN <<[tag |-> "bad", data |-> << >>, crc |-> << >>]>>
         ELSE LET n == Unpack32(b, k)
              IN  <<[tag  |-> SubSeq(b, k + 4, k + 7),
                     data |-> SubSeq(b, k + 8, k + 7 + n),
                     crc  |-> SubSeq(b, k + 8 + n, k + 11 + n)]>>
                  \o Chunks(b, k + 12 + n)

\* inflate of a zlib stream holding one stored block: the header check, the
\* block's length and its complement, the data, the Adler-32 of the data
Inflate(z) ==
    IF Len(z) < 11 THEN [ok |-> FALSE, data |-> << >>]
    ELSE LET n    == z[4] + 256 * z[5]
             data == SubSeq(z, 8, 7 + n)
         IN  [ok   |-> /\ z[1] = 120 /\ (z[1] * 256 + z[2]) % 31 = 0
                       /\ z[3] = 1
                       /\ z[6] + 256 * z[7] = 65535 - n
                       /\ Len(z) = n + 11
                       /\ SubSeq(z, 8 + n, 11 + n) = Adler32(data),
              data |-> data]

RECURSIVE Rows(_, _, _, _)
\* rows r..h-1 of the scanlines: each row without its leading filter byte
Rows(raw, w, h, r) ==
    IF r >= h THEN << >>
    ELSE SubSeq(raw, r * (4 * w + 1) + 2, (r + 1) * (4 * w + 1)) \o Rows(raw, w, h, r + 1)

\* what a decoder recovers from the data block of png for a w x h image
Decode(png, w, h) ==
    LET cs  == Chunks(png, 9)
        z   == IF Len(cs) >= 2 THEN Inflate(cs[2].data) ELSE [ok |-> FALSE, data |-> << >>]
        raw == z.data
    IN  [ok     |-> /\ z.ok
                    /\ Len(raw) = h * (4 * w + 1)
                    /\ \A r \in 0..(h - 1) : raw[r * (4 * w + 1) + 1] = 0,
         pixels |-> Rows(raw, w, h, 0)]

\* C3: for every w, h and buffer of length w*h*4 with values in 0..255,
\* encode(w, h, buf) returns, its output starts with the signature
\* 89 50 4E 47 0D 0A 1A 0A, and inflating its data block and dropping each
\* row's filter byte 0 recovers exactly buf, in order.
C3_RoundTrip ==
    Len(pixels) = width * height * 4 /\ IsBytes(pixels) =>
        /\ pc # "fault"
        /\ pc = "encoded" =>
              /\ SubSeq(png_data, 1, 8) = <<137, 80, 78, 71, 13, 10, 26, 10>>
              /\ Decode(png_data, width, height) = [ok |-> TRUE, pixels |-> pixels]

C3_Witness ==
    /\ pc = "encoded" /\ width = 2 /\ height = 2
    /\ Len(pixels) = 16 /\ pixels[1] # pixels[5] /\ pixels[5] # pixels[9]
    /\ Decode(png_data, width, height).pixels = pixels

\* C4: the output of encode is the signature followed by exactly three blocks,
\* IHDR (13-byte payload: width, height, 8, 6, 0, 0, 0), IDAT, IEND (empty
\* payload), each laid out as length, tag, payload, CRC-32, and each stored
\* CRC is the CRC-32 of that block's tag + payload.
C4_Layout ==
    pc = "encoded" =>
        LET cs == Chunks(png_data, 9)
        IN  /\ SubSeq(png_data, 1, 8) = signature
            /\ Len(cs) = 3
            /\ cs[1].tag = <<73, 72, 68, 82>>
            /\ cs[2].tag = <<73, 68, 65, 84>>
            /\ cs[3].tag = <<73, 69, 78, 68>>
            /\ Len(cs[1].data) = 13
            /\ Unpack32(cs[1].data, 1) = width /\ Unpack32(cs[1].data, 5) = height
            /\ SubSeq(cs[1].data, 9, 13) = <<8, 6, 0, 0, 0>>
            /\ cs[3].data = << >>
            /\ \A k \in 1..3 : cs[k].crc = Crc32(cs[k].tag \o cs[k].data)

C4_Witness ==
    /\ pc = "encoded" /\ width = 2 /\ height = 1 /\ Len(pixels) = 8
    /\ Len(Chunks(png_data, 9)) = 3
    /\ Len(Chunks(png_data, 9)[2].data) > 0

\* C10: encode(width, height, buf) called with a buffer whose length is not
\* width*height*4 ends in a fault and returns no byte sequence.
C10_MalformedBufferFaults == Len(pixels) # width * height * 4 => pc # "encoded"

----------------------------------------------------------------------------
(* Properties of main, checked under SpecDriver.                           *)

TableIndex == 1..Len(sizes)

\* what the file of table entry k holds when it is the encoding of the
\* rendering of the entry's own size
FileOf(k) == create_png(sizes[k].size, sizes[k].size, Icon(sizes[k].size))

FreshFiles ==
    [n \in {sizes[k].filename : k \in TableIndex} |->
        FileOf(CHOOSE k \in TableIndex : sizes[k].filename = n)]

\* C1: a run that ends without a filesystem failure leaves exactly ten files
\* in the directory, named as the table names them, each non-empty and equal
\* to create_png(size, size, draw_icon(size)) for its own entry's size.
C1_DriverFiles ==
    pc = "done" =>
        /\ ~fsFailed
        /\ Cardinality(DOMAIN files) = 10
        /\ DOMAIN files = {sizes[k].filename : k \in TableIndex}
        /\ \A k \in TableIndex :
              /\ Len(files[sizes[k].filename]) > 0
              /\ files[sizes[k].filename] = FileOf(k)

C1_Witness ==
    /\ pc = "done" /\ run = 1
    /\ files["icon_512x512@2x.png"] = create_png(1024, 1024, Icon(1024))

\* C2: draw_icon is called once for each distinct size of the table and never
\* twice for one size: an entry whose size is in the cache is encoded from the
\* cached buffer, and a complete run has made the seven calls 16, 32, 64, 128,
\* 256, 512, 1024 in that order.
C2_RenderOncePerSize ==
    /\ \A a, b \in DOMAIN renderLog : renderLog[a] = renderLog[b] => a = b
    /\ {renderLog[a] : a \in DOMAIN renderLog} = DOMAIN rendered
    /\ pc \in {"open", "write"} => pixels = Icon(size)
    /\ pc \in {"loop", "done"} =>
          DOMAIN rendered = {sizes[k].size : k \in 1..(i - 1)}
    /\ pc = "done" => renderLog = <<16, 32, 64, 128, 256, 512, 1024>>

C2_Witness ==
    /\ pc = "open" /\ i = 3
    /\ renderLog = <<16, 32>>
    /\ pixels = Icon(32)

\* C8: the directory is there before any file is opened, files are written in
\* the order of the table, and a failed filesystem operation ends the run at
\* once: nothing is rendered, encoded or written after it, the failed
\* operation is not tried again, and the files written before it stay as
\* they were written.
C8_StateOrder ==
    /\ pc \in {"loop", "render", "encode", "open", "write", "done"} => dirExists
    /\ DOMAIN files # {} => dirExists
    /\ Len(written) <= Len(sizes)
    /\ \A k \in DOMAIN written :
          /\ written[k] = sizes[k].filename
          /\ files[written[k]] = FileOf(k)
    /\ fsFailed => pc = "aborted"

C8_FailStop ==
    /\ [] C8_StateOrder
    /\ [][ /\ (fsFailed' /\ ~fsFailed) =>
                 /\ run' = run
                 /\ UNCHANGED <<rendered, renderLog, written, i>>
                 /\ \A k \in DOMAIN written :
                        files'[written[k]] = files[written[k]]
           /\ (fsFailed /\ run' = run) =>
                 UNCHANGED <<files, dirExists, rendered, renderLog, written, i,
                             png_data, pixels>> ]_vars

C8_Witness ==
    /\ pc = "aborted" /\ run = 1
    /\ written = <<"icon_16x16.png", "icon_16x16@2x.png">>
    /\ "icon_32x32.png" \in DOMAIN files
    /\ Len(files["icon_32x32.png"]) = 1

\* C9: a run on a directory left by an earlier run, complete or aborted, goes
\* as a run on a fresh one: the directory and the files already there make
\* nothing fail, each file the run writes holds the whole new content, and a
\* complete run leaves what a first run leaves.
C9_RerunIdempotent ==
    run > 1 =>
        /\ pc = "aborted" => fsFailed
        /\ \A k \in DOMAIN written : files[written[k]] = FileOf(k)
        /\ pc = "done" => files = FreshFiles

C9_Witness ==
    /\ run = 2 /\ pc = "loop"
    /\ written = <<"icon_16x16.png">>
    /\ Cardinality(DOMAIN files) = 10
    /\ Len(files["icon_512x512@2x.png"]) = 0

=============================================================================
